---- MODULE Spec2Model ----
(***************************************************************************)
(* Block header tracking of the Polaris EVM block plugin                   *)
(* (cosmos/x/evm/plugins/block/header.go): one serialized header per chain *)
(* height, kept under two fixed keys of a versioned key-value store.       *)
(*                                                                         *)
(* Values of the model:                                                    *)
(*   bytes   a sequence of integers; the Go nil slice is <<>>              *)
(*   error   a sequence of strings, the messages outermost first, each     *)
(*           followed by the numbers formatted into it; the Go nil error   *)
(*           is <<>>                                                       *)
(*   header  [number, payload]; payload stands for every field of the      *)
(*           header other than its number                                  *)
(*   store   [key -> bytes], <<>> under a key that holds no value          *)
(***************************************************************************)
EXTENDS Integers, Sequences, FiniteSets, TLC

\* Heights (block numbers and store versions) run over 0..MaxHeight.
MaxHeight == 2

\* Payloads 1..MaxPayload fit the wire representation; MaxPayload + 1 does not.
MaxPayload == 1

\* Width of the unsigned and signed integer types (uint64, int64), scaled down.
Bits == 4

TwoToBits == 2 ^ Bits

\* Contexts that the Ctx method of the RPC test environments creates in all.
MaxCtx == 3

VARIABLES
    live,             \* p.ctx.KVStore(p.storekey): the live, mutable store
    snaps,            \* the committed state of the store, per version
    versions,         \* the versions the versioned store can still open
    lastCommit,       \* the latest committed version, -1 before the first commit
    height,           \* p.ctx.BlockHeight()
    getQueryContext,  \* p.getQueryContext: "nil", "adapter" or "failing"
    wrapOfNil,        \* what errorslib.Wrapf makes of a nil error in this build
    ret,              \* what the step just taken returned to its caller
    rd,               \* a call of GetHeaderByNumber in progress, line by line
    env,              \* e2e/hive/simulators/rpc: lastCtx, lastCancel of the TestEnv
    ctxs,             \* the contexts that TestEnv.Ctx created, in the order made
    run               \* the run of runHTTP or runWS in progress, and where it is

vars == <<live, snaps, versions, lastCommit, height, getQueryContext, wrapOfNil, ret,
          rd, env, ctxs, run>>

\* The variables of the RPC test environment, which the block plugin leaves alone.
testEnvVars == <<env, ctxs, run>>

\* The variables of the block plugin, which the RPC test environment leaves alone.
pluginVars == <<live, snaps, versions, lastCommit, height, getQueryContext, wrapOfNil,
                ret, rd>>

-----------------------------------------------------------------------------
\* Values

GenesisHeaderKey == "GenesisHeaderKey"
HeaderKey == "HeaderKey"
Keys == {GenesisHeaderKey, HeaderKey}

NilBytes == <<>>
NilError == <<>>
NilHeader == [number |-> -1, payload |-> 0]

Heights == 0..MaxHeight
Headers == [number : Heights, payload : 1..(MaxPayload + 1)]

\* Bytes that are no encoding of a header.
Malformed == <<0>>

EmptyStore == [k \in Keys |-> NilBytes]

\* The heights a caller asks for: every height, the next one, and the largest uint64.
Requests == 0..(MaxHeight + 1) \cup {TwoToBits - 1}

\* Go's conversions between uint64 and int64 (two's complement, Bits wide).
uint64(x) == x % TwoToBits
int64(x) == IF x % TwoToBits >= TwoToBits \div 2
            THEN (x % TwoToBits) - TwoToBits
            ELSE x % TwoToBits

-----------------------------------------------------------------------------
\* Header codec (coretypes.MarshalHeader, coretypes.UnmarshalHeader)

MarshalHeader(header) ==
    IF header.payload > MaxPayload
    THEN [bz |-> NilBytes, err |-> <<"rlp: value too large">>]
    ELSE [bz |-> <<header.number, header.payload>>, err |-> NilError]

UnmarshalHeader(bz) ==
    IF /\ Len(bz) = 2
       /\ bz[1] \in 0..(TwoToBits - 1)
       /\ bz[2] \in 1..MaxPayload
    THEN [header |-> [number |-> bz[1], payload |-> bz[2]], err |-> NilError]
    ELSE [header |-> NilHeader, err |-> <<"rlp: malformed header">>]

\* errorslib.Wrap: the message in front of the wrapped error. A nil error has
\* nothing to wrap: the build either returns nil or an error of the message alone.
Wrap(err, msg) ==
    IF err = NilError
    THEN (IF wrapOfNil = "nil" THEN NilError ELSE <<msg>>)
    ELSE <<msg>> \o err

\* errorslib.Wrapf: Wrap with the message formatted; the numbers formatted into it
\* follow the format.
Wrapf(err, format, args) ==
    IF err = NilError
    THEN (IF wrapOfNil = "nil"
          THEN NilError
          ELSE <<format>> \o [i \in 1..Len(args) |-> ToString(args[i])])
    ELSE <<format>> \o [i \in 1..Len(args) |-> ToString(args[i])] \o err

-----------------------------------------------------------------------------
\* The versioned store and the query context

Get(store, key) == store[key]

Set(store, key, bz) == [store EXCEPT ![key] = bz]

\* The host's CreateQueryContext: a read-only view of the store as committed at
\* version h, when the versioned store can still open it.
viewAt(h, prove) ==
    IF h \in versions
    THEN [version |-> h, store |-> snaps[h], err |-> NilError]
    ELSE [version |-> h, store |-> EmptyStore, err |-> <<"version does not exist">>]

\* A call of p.getQueryContext, which is not nil.
CallQueryContext(h, prove) ==
    IF getQueryContext = "adapter"
    THEN viewAt(h, prove)
    ELSE [version |-> h, store |-> EmptyStore, err |-> <<"query context unavailable">>]

-----------------------------------------------------------------------------
\* header.go

\* The errors it makes and the messages it wraps errors in.
ErrNilQueryContext == <<"GetHeader: getQueryContext is nil">>
ErrNotFound == <<"GetHeader: polaris header not found in kvstore">>
MsgUnmarshal == "GetHeader: failed to unmarshal"
MsgQueryContext == "GetHeader: failed to use query context"
MsgMismatch == "GetHeader: header number mismatch, got %d, expected %d"
MsgMarshal == "SetHeader: failed to marshal header"

\* getKeyForBlockNumber without the genesis case.
getKeyForBlockNumber_AlwaysHeaderKey(number) == HeaderKey

getKeyForBlockNumber(number) ==
    IF number = 0 THEN GenesisHeaderKey ELSE HeaderKey

readGenesisHeaderBytes == Get(live, GenesisHeaderKey)

\* The read of line 115 going to the live store, not to the view.
readViewBytes_LiveStore(view) == Get(live, HeaderKey)

\* The header key of the store of a view that p.getQueryContext returned.
readViewBytes(view) == Get(view.store, HeaderKey)

LiveRead(key) == [store |-> "live", version |-> -1, key |-> key]
ViewRead(v, key) == [store |-> "view", version |-> v, key |-> key]

\* readHeaderBytes with the nil check of p.getQueryContext ahead of the genesis case.
readHeaderBytes_NilCheckFirst(number) ==
    IF getQueryContext = "nil"
    THEN [bz |-> NilBytes, err |-> ErrNilQueryContext,
          calls |-> <<>>, reads |-> <<>>]
    ELSE IF number = 0
    THEN [bz |-> readGenesisHeaderBytes, err |-> NilError,
          calls |-> <<>>, reads |-> <<LiveRead(GenesisHeaderKey)>>]
    ELSE LET n == IF number > uint64(height) THEN uint64(height) ELSE number
             q == CallQueryContext(int64(n), FALSE)
             call == [height |-> int64(n), prove |-> FALSE]
         IN  IF q.err # NilError
             THEN [bz |-> NilBytes,
                   err |-> Wrap(q.err, MsgQueryContext),
                   calls |-> <<call>>, reads |-> <<>>]
             ELSE [bz |-> readViewBytes(q), err |-> NilError,
                   calls |-> <<call>>, reads |-> <<ViewRead(q.version, HeaderKey)>>]

\* readHeaderBytes asking for the view at the current height, whatever was asked for.
readHeaderBytes_AlwaysCurrent(number) ==
    IF number = 0
    THEN [bz |-> readGenesisHeaderBytes, err |-> NilError,
          calls |-> <<>>, reads |-> <<LiveRead(GenesisHeaderKey)>>]
    ELSE IF getQueryContext = "nil"
    THEN [bz |-> NilBytes, err |-> ErrNilQueryContext,
          calls |-> <<>>, reads |-> <<>>]
    ELSE LET n == uint64(height)
             q == CallQueryContext(int64(n), FALSE)
             call == [height |-> int64(n), prove |-> FALSE]
         IN  IF q.err # NilError
             THEN [bz |-> NilBytes,
                   err |-> Wrap(q.err, MsgQueryContext),
                   calls |-> <<call>>, reads |-> <<>>]
             ELSE [bz |-> readViewBytes(q), err |-> NilError,
                   calls |-> <<call>>, reads |-> <<ViewRead(q.version, HeaderKey)>>]

\* readHeaderBytes dropping the error of p.getQueryContext and reading on.
readHeaderBytes_IgnoresError(number) ==
    IF number = 0
    THEN [bz |-> readGenesisHeaderBytes, err |-> NilError,
          calls |-> <<>>, reads |-> <<LiveRead(GenesisHeaderKey)>>]
    ELSE IF getQueryContext = "nil"
    THEN [bz |-> NilBytes, err |-> ErrNilQueryContext,
          calls |-> <<>>, reads |-> <<>>]
    ELSE LET n == IF number > uint64(height) THEN uint64(height) ELSE number
             q == CallQueryContext(int64(n), FALSE)
             call == [height |-> int64(n), prove |-> FALSE]
         IN  [bz |-> readViewBytes(q), err |-> NilError,
              calls |-> <<call>>, reads |-> <<ViewRead(q.version, HeaderKey)>>]

\* readHeaderBytes without the clamp to the current height.
readHeaderBytes_NoClamp(number) ==
    IF number = 0
    THEN [bz |-> readGenesisHeaderBytes, err |-> NilError,
          calls |-> <<>>, reads |-> <<LiveRead(GenesisHeaderKey)>>]
    ELSE IF getQueryContext = "nil"
    THEN [bz |-> NilBytes, err |-> ErrNilQueryContext,
          calls |-> <<>>, reads |-> <<>>]
    ELSE LET q == CallQueryContext(int64(number), FALSE)
             call == [height |-> int64(number), prove |-> FALSE]
         IN  IF q.err # NilError
             THEN [bz |-> NilBytes,
                   err |-> Wrap(q.err, MsgQueryContext),
                   calls |-> <<call>>, reads |-> <<>>]
             ELSE [bz |-> readViewBytes(q), err |-> NilError,
                   calls |-> <<call>>, reads |-> <<ViewRead(q.version, HeaderKey)>>]

\* The bytes and the error it returns, with the calls of p.getQueryContext and
\* the store reads it made on the way.
readHeaderBytes(number) ==
    IF number = 0
    THEN [bz |-> readGenesisHeaderBytes, err |-> NilError,
          calls |-> <<>>, reads |-> <<LiveRead(GenesisHeaderKey)>>]
    ELSE IF getQueryContext = "nil"
    THEN [bz |-> NilBytes, err |-> ErrNilQueryContext,
          calls |-> <<>>, reads |-> <<>>]
    ELSE LET n == IF number > uint64(height) THEN uint64(height) ELSE number
             q == CallQueryContext(int64(n), FALSE)
             call == [height |-> int64(n), prove |-> FALSE]
         IN  IF q.err # NilError
             THEN [bz |-> NilBytes,
                   err |-> Wrap(q.err, MsgQueryContext),
                   calls |-> <<call>>, reads |-> <<>>]
             ELSE [bz |-> readViewBytes(q), err |-> NilError,
                   calls |-> <<call>>, reads |-> <<ViewRead(q.version, HeaderKey)>>]

\* Lines 47-65 without the check for missing bytes.
headerOfBytes_NoNilCheck(r, number) ==
    LET u == UnmarshalHeader(r.bz)
        out(header, err) == [header |-> header, err |-> err,
                             calls |-> r.calls, reads |-> r.reads]
    IN  IF r.err # NilError THEN out(NilHeader, r.err)
        ELSE IF u.err # NilError
        THEN out(NilHeader, Wrap(u.err, MsgUnmarshal))
        ELSE IF uint64(u.header.number) # number
        THEN out(NilHeader,
                 Wrapf(u.err, MsgMismatch, <<uint64(u.header.number), number>>))
        ELSE out(u.header, NilError)

\* Lines 47-65 without the comparison of the header's number with the one asked for.
headerOfBytes_NoNumberCheck(r, number) ==
    LET u == UnmarshalHeader(r.bz)
        out(header, err) == [header |-> header, err |-> err,
                             calls |-> r.calls, reads |-> r.reads]
    IN  IF r.err # NilError THEN out(NilHeader, r.err)
        ELSE IF r.bz = NilBytes
        THEN out(NilHeader, ErrNotFound)
        ELSE IF u.err # NilError
        THEN out(NilHeader, Wrap(u.err, MsgUnmarshal))
        ELSE out(u.header, NilError)

\* What GetHeaderByNumber(number) makes of r, the return of readHeaderBytes.
headerOfBytes(r, number) ==
    LET u == UnmarshalHeader(r.bz)
        out(header, err) == [header |-> header, err |-> err,
                             calls |-> r.calls, reads |-> r.reads]
    IN  IF r.err # NilError THEN out(NilHeader, r.err)
        ELSE IF r.bz = NilBytes
        THEN out(NilHeader, ErrNotFound)
        ELSE IF u.err # NilError
        THEN out(NilHeader, Wrap(u.err, MsgUnmarshal))
        ELSE IF uint64(u.header.number) # number
        THEN out(NilHeader,
                 Wrapf(u.err, MsgMismatch, <<uint64(u.header.number), number>>))
        ELSE out(u.header, NilError)

GetHeaderByNumber(number) == headerOfBytes(readHeaderBytes(number), number)

\* StoreHeader writing what the codec returned, failed or not.
StoreHeaderResult_WritesOnError(header) ==
    LET m == MarshalHeader(header)
    IN  [live |-> Set(live, getKeyForBlockNumber(uint64(header.number)), m.bz),
         err |-> IF m.err # NilError
                 THEN Wrap(m.err, MsgMarshal)
                 ELSE NilError]

\* The live store after StoreHeader(header), and the error it returns.
StoreHeaderResult(header) ==
    LET m == MarshalHeader(header)
    IN  IF m.err # NilError
        THEN [live |-> live, err |-> Wrap(m.err, MsgMarshal)]
        ELSE [live |-> Set(live, getKeyForBlockNumber(uint64(header.number)), m.bz),
              err |-> NilError]

-----------------------------------------------------------------------------
\* Steps

NoRet == [op |-> "none", number |-> -1, stored |-> NilHeader,
          header |-> NilHeader, err |-> NilError, calls |-> <<>>, reads |-> <<>>]

\* No call in progress. Of a call in progress, `historical` says whether the height
\* it asks for was committed and below the current height when it began, and
\* `overlapped` whether StoreHeader ran since.
NoCall == [pc |-> "idle", number |-> 0, n |-> 0,
           view |-> [version |-> -1, store |-> EmptyStore, err |-> NilError],
           r |-> [bz |-> NilBytes, err |-> NilError, calls |-> <<>>, reads |-> <<>>],
           historical |-> FALSE, overlapped |-> FALSE]

\* A TestEnv as runHTTP and runWS make it: no context yet.
NoEnv == [lastCtx |-> 0, lastCancel |-> 0]

\* Neither runHTTP nor runWS was called.
NoRun == [transport |-> "none", pc |-> "idle"]

Init ==
    /\ live = EmptyStore
    /\ snaps = [v \in Heights |-> EmptyStore]
    /\ versions = {}
    /\ lastCommit = -1
    /\ height = 0
    /\ getQueryContext = "nil"
    /\ wrapOfNil \in {"nil", "error"}
    /\ ret = NoRet
    /\ rd = NoCall
    /\ env = NoEnv
    /\ ctxs = <<>>
    /\ run = NoRun

SetQueryContextFn(gqc) ==
    /\ getQueryContext' = gqc
    /\ ret' = NoRet
    /\ UNCHANGED <<live, snaps, versions, lastCommit, height, wrapOfNil, rd>>
    /\ UNCHANGED testEnvVars

\* GetHeaderByNumber keeping the bytes it read in the header key of the live store.
GetHeader_KeepsBytes(number) ==
    /\ ret' = LET g == GetHeaderByNumber(number)
              IN  [op |-> "GetHeaderByNumber", number |-> number, stored |-> NilHeader,
                   header |-> g.header, err |-> g.err,
                   calls |-> g.calls, reads |-> g.reads]
    /\ live' = Set(live, HeaderKey, readHeaderBytes(number).bz)
    /\ UNCHANGED <<snaps, versions, lastCommit, height, getQueryContext, wrapOfNil, rd>>
    /\ UNCHANGED testEnvVars

GetHeader(number) ==
    /\ ret' = LET g == GetHeaderByNumber(number)
              IN  [op |-> "GetHeaderByNumber", number |-> number, stored |-> NilHeader,
                   header |-> g.header, err |-> g.err,
                   calls |-> g.calls, reads |-> g.reads]
    /\ UNCHANGED <<live, snaps, versions, lastCommit, height, getQueryContext, wrapOfNil, rd>>
    /\ UNCHANGED testEnvVars

\* The chain hands over the header of the block it is processing.
StoreHeader(header) ==
    /\ header.number = height
    /\ live' = StoreHeaderResult(header).live
    /\ ret' = [NoRet EXCEPT !.op = "StoreHeader", !.number = header.number,
                            !.stored = header, !.err = StoreHeaderResult(header).err]
    /\ UNCHANGED <<snaps, versions, lastCommit, height, getQueryContext, wrapOfNil, rd>>
    /\ UNCHANGED testEnvVars

\* The host commits the block: the live store becomes version `height`.
Commit ==
    /\ lastCommit < height
    /\ snaps' = [snaps EXCEPT ![height] = live]
    /\ versions' = versions \cup {height}
    /\ lastCommit' = height
    /\ ret' = NoRet
    /\ UNCHANGED <<live, height, getQueryContext, wrapOfNil, rd>>
    /\ UNCHANGED testEnvVars

\* The host begins the next block: the plugin's context moves to its height.
BeginBlock ==
    /\ lastCommit = height
    /\ height < MaxHeight
    /\ height' = height + 1
    /\ ret' = NoRet
    /\ UNCHANGED <<live, snaps, versions, lastCommit, getQueryContext, wrapOfNil, rd>>
    /\ UNCHANGED testEnvVars

\* The versioned store prunes its oldest version, never the latest.
Prune(v) ==
    /\ v \in versions
    /\ v < lastCommit
    /\ \A w \in versions : v <= w
    /\ versions' = versions \ {v}
    /\ snaps' = [snaps EXCEPT ![v] = EmptyStore]
    /\ ret' = NoRet
    /\ UNCHANGED <<live, lastCommit, height, getQueryContext, wrapOfNil, rd>>
    /\ UNCHANGED testEnvVars

\* Something other than StoreHeader damages the bytes stored under a key.
Corrupt(key) ==
    /\ live[key] # NilBytes
    /\ live' = Set(live, key, Malformed)
    /\ ret' = NoRet
    /\ UNCHANGED <<snaps, versions, lastCommit, height, getQueryContext, wrapOfNil, rd>>
    /\ UNCHANGED testEnvVars

-----------------------------------------------------------------------------
\* GetHeaderByNumber line by line, one step for each access to what other calls
\* can change, so that StoreHeader and the host run between its lines.

\* Lines 45-46 and 90-99: the genesis case and the nil check.
ReadCall(number) ==
    /\ rd.pc = "idle"
    /\ rd' = [NoCall EXCEPT
                !.number = number,
                !.n = number,
                !.historical = (number >= 1 /\ number <= lastCommit /\ number < height),
                !.pc = IF number = 0 \/ getQueryContext = "nil" THEN "return" ELSE "clamp",
                !.r = IF number = 0
                      THEN [bz |-> readGenesisHeaderBytes, err |-> NilError,
                            calls |-> <<>>, reads |-> <<LiveRead(GenesisHeaderKey)>>]
                      ELSE IF getQueryContext = "nil"
                      THEN [bz |-> NilBytes,
                            err |-> ErrNilQueryContext,
                            calls |-> <<>>, reads |-> <<>>]
                      ELSE NoCall.r]
    /\ ret' = NoRet
    /\ UNCHANGED <<live, snaps, versions, lastCommit, height, getQueryContext, wrapOfNil>>
    /\ UNCHANGED testEnvVars

\* Lines 104-107: the clamp to the current height.
ReadClamp ==
    /\ rd.pc = "clamp"
    /\ rd' = [rd EXCEPT
                !.n = IF rd.number > uint64(height) THEN uint64(height) ELSE rd.number,
                !.pc = "query"]
    /\ ret' = NoRet
    /\ UNCHANGED <<live, snaps, versions, lastCommit, height, getQueryContext, wrapOfNil>>
    /\ UNCHANGED testEnvVars

\* Lines 109-112: the query context of the height.
ReadQuery ==
    /\ rd.pc = "query"
    /\ LET q == CallQueryContext(int64(rd.n), FALSE)
           call == [height |-> int64(rd.n), prove |-> FALSE]
       IN  rd' = IF q.err # NilError
                 THEN [rd EXCEPT
                         !.pc = "return",
                         !.r = [bz |-> NilBytes,
                                err |-> Wrap(q.err, MsgQueryContext),
                                calls |-> <<call>>, reads |-> <<>>]]
                 ELSE [rd EXCEPT !.pc = "read", !.view = q, !.r.calls = <<call>>]
    /\ ret' = NoRet
    /\ UNCHANGED <<live, snaps, versions, lastCommit, height, getQueryContext, wrapOfNil>>
    /\ UNCHANGED testEnvVars

\* Line 115: the header key of the view.
ReadView ==
    /\ rd.pc = "read"
    /\ rd' = [rd EXCEPT
                !.pc = "return",
                !.r.bz = readViewBytes(rd.view),
                !.r.reads = <<ViewRead(rd.view.version, HeaderKey)>>]
    /\ ret' = NoRet
    /\ UNCHANGED <<live, snaps, versions, lastCommit, height, getQueryContext, wrapOfNil>>
    /\ UNCHANGED testEnvVars

\* Lines 47-65: the header or the error goes to the caller.
ReadReturn ==
    /\ rd.pc = "return"
    /\ ret' = LET g == headerOfBytes(rd.r, rd.number)
              IN  [op |-> "GetHeaderByNumber", number |-> rd.number, stored |-> NilHeader,
                   header |-> g.header, err |-> g.err,
                   calls |-> g.calls, reads |-> g.reads]
    /\ rd' = NoCall
    /\ UNCHANGED <<live, snaps, versions, lastCommit, height, getQueryContext, wrapOfNil>>
    /\ UNCHANGED testEnvVars

\* StoreHeader beside a call of GetHeaderByNumber that may be in progress; what it
\* returns is not kept.
StoreHeaderBeside(header) ==
    /\ header.number = height
    /\ live' = StoreHeaderResult(header).live
    /\ rd' = [rd EXCEPT !.overlapped = (rd.pc # "idle")]
    /\ ret' = NoRet
    /\ UNCHANGED <<snaps, versions, lastCommit, height, getQueryContext, wrapOfNil>>
    /\ UNCHANGED testEnvVars

Next ==
    \/ \E gqc \in {"nil", "adapter", "failing"} : SetQueryContextFn(gqc)
    \/ \E number \in Requests : GetHeader(number)
    \/ \E header \in Headers : StoreHeader(header)
    \/ Commit
    \/ BeginBlock
    \/ \E v \in Heights : Prune(v)
    \/ \E key \in Keys : Corrupt(key)

Spec == Init /\ [][Next]_vars

\* Calls of GetHeaderByNumber taken line by line, among the StoreHeader calls and
\* the commits of the host. The query context function is installed and versions
\* are pruned between calls, not during one.
NextConcurrent ==
    \/ \E number \in Heights : ReadCall(number)
    \/ ReadClamp
    \/ ReadQuery
    \/ ReadView
    \/ ReadReturn
    \/ \E header \in Headers : StoreHeaderBeside(header)
    \/ Commit
    \/ BeginBlock
    \/ rd.pc = "idle" /\ \E gqc \in {"nil", "adapter", "failing"} : SetQueryContextFn(gqc)
    \/ rd.pc = "idle" /\ \E v \in Heights : Prune(v)

SpecConcurrent == Init /\ [][NextConcurrent]_vars

\* The largest int64 and every uint64.
MaxInt64 == (TwoToBits \div 2) - 1
AllUint64 == 0..(TwoToBits - 1)

\* The plugin at any current height an int64 holds, before anything was committed.
InitAnyHeight ==
    /\ live = EmptyStore
    /\ snaps = [v \in Heights |-> EmptyStore]
    /\ versions = {}
    /\ lastCommit = -1
    /\ height \in 0..MaxInt64
    /\ getQueryContext = "nil"
    /\ wrapOfNil \in {"nil", "error"}
    /\ ret = NoRet
    /\ rd = NoCall
    /\ env = NoEnv
    /\ ctxs = <<>>
    /\ run = NoRun

\* Calls of GetHeaderByNumber for any uint64.
NextAnyHeight ==
    \/ \E gqc \in {"nil", "adapter", "failing"} : SetQueryContextFn(gqc)
    \/ \E number \in AllUint64 : GetHeader(number)

SpecAnyHeight == InitAnyHeight /\ [][NextAnyHeight]_vars

-----------------------------------------------------------------------------
\* e2e/hive/simulators/rpc/helper.go: the environment of one RPC test
\*
\* A context is [err, cancelCalled]: err is what its Err method returns, "nil"
\* until the context is done. Contexts are named by their place in ctxs, and a
\* cancel function by the context it cancels; 0 is the Go nil.

\* context.WithTimeout(context.Background(), rpcTimeout)
NewContext == [err |-> "nil", cancelCalled |-> FALSE]

\* The contexts after a call of the cancel function of context c.
Cancel(cs, c) ==
    [cs EXCEPT ![c] = [err |-> IF cs[c].err = "nil" THEN "context canceled" ELSE cs[c].err,
                       cancelCalled |-> TRUE]]

\* Lines 84-86 and 106-108: the last context is cancelled once fn has returned.
CancelLast(cs, e) == IF e.lastCtx # 0 THEN Cancel(cs, e.lastCancel) ELSE cs

\* TestEnv.Ctx leaving the previous context as it is.
Ctx_KeepsPrevious ==
    /\ run.pc = "fn"
    /\ Len(ctxs) < MaxCtx
    /\ ctxs' = Append(ctxs, NewContext)
    /\ env' = [lastCtx |-> Len(ctxs) + 1, lastCancel |-> Len(ctxs) + 1]
    /\ UNCHANGED run
    /\ UNCHANGED pluginVars

\* TestEnv.Ctx, called by the test function.
Ctx ==
    /\ run.pc = "fn"
    /\ Len(ctxs) < MaxCtx
    /\ ctxs' = Append(IF env.lastCtx # 0 THEN Cancel(ctxs, env.lastCancel) ELSE ctxs,
                      NewContext)
    /\ env' = [lastCtx |-> Len(ctxs) + 1, lastCancel |-> Len(ctxs) + 1]
    /\ UNCHANGED run
    /\ UNCHANGED pluginVars

\* rpcTimeout passes for a context that is not done.
Timeout(c) ==
    /\ c \in 1..Len(ctxs)
    /\ ctxs[c].err = "nil"
    /\ ctxs' = [ctxs EXCEPT ![c].err = "context deadline exceeded"]
    /\ UNCHANGED <<env, run>>
    /\ UNCHANGED pluginVars

\* runHTTP up to its call of fn: a new TestEnv.
runHTTPCallsFn ==
    /\ run.pc # "fn"
    /\ run' = [transport |-> "http", pc |-> "fn"]
    /\ env' = NoEnv
    /\ UNCHANGED ctxs
    /\ UNCHANGED pluginVars

\* runWS up to its call of fn: a new TestEnv, unless the dial fails and t.Fatal
\* ends the test.
runWSCallsFn(dialed) ==
    /\ run.pc # "fn"
    /\ run' = [transport |-> "ws", pc |-> IF dialed THEN "fn" ELSE "fatal"]
    /\ env' = NoEnv
    /\ UNCHANGED ctxs
    /\ UNCHANGED pluginVars

\* fn returns, and runHTTP or runWS after it.
runReturns ==
    /\ run.pc = "fn"
    /\ ctxs' = CancelLast(ctxs, env)
    /\ run' = [run EXCEPT !.pc = "returned"]
    /\ UNCHANGED env
    /\ UNCHANGED pluginVars

NextTestEnv ==
    \/ runHTTPCallsFn
    \/ \E dialed \in BOOLEAN : runWSCallsFn(dialed)
    \/ Ctx
    \/ \E c \in 1..MaxCtx : Timeout(c)
    \/ runReturns

SpecTestEnv == Init /\ [][NextTestEnv]_vars

-----------------------------------------------------------------------------
\* Notions the properties share

\* The step just taken was the call GetHeaderByNumber(n), and this is its state.
Returned(n) == ret.op = "GetHeaderByNumber" /\ ret.number = n

\* What a call GetHeaderByNumber(n) made in this state hands to its caller.
Result(n) == LET g == GetHeaderByNumber(n) IN [header |-> g.header, err |-> g.err]

\* The store a recorded read went to.
StoreOf(read) == IF read.store = "live" THEN live ELSE snaps[read.version]

Min(a, b) == IF a < b THEN a ELSE b

-----------------------------------------------------------------------------
\* C1. Mismatch detection: a call GetHeaderByNumber(n), n >= 1, that read from
\* CURRENT_SLOT of the snapshot view bytes decoding to a header whose number is not
\* the height asked for after the clamp returns an error and no header.
C1_MismatchDetection ==
    \A n \in Requests :
        (/\ Returned(n)
         /\ n >= 1
         /\ Len(ret.reads) = 1
         /\ UnmarshalHeader(Get(StoreOf(ret.reads[1]), HeaderKey)).err = NilError
         /\ UnmarshalHeader(Get(StoreOf(ret.reads[1]), HeaderKey)).header.number
                # Min(n, height))
        => (ret.err # NilError /\ ret.header = NilHeader)

\* C2. Clamp monotonicity, in the case the claim singles out: at a current height
\* C >= 1 where GetHeaderByNumber(C) succeeds, GetHeaderByNumber(n) with n > C
\* succeeds too, with the same header, whose number is C.
C2_ClampMonotonicity ==
    \A n \in Requests :
        (/\ Returned(n)
         /\ n > height
         /\ height >= 1
         /\ Result(height).err = NilError
         /\ Result(height).header # NilHeader)
        => (/\ ret.err = NilError
            /\ ret.header = Result(height).header
            /\ ret.header.number = height)

\* The header that version H holds for height H: the one StoreHeader wrote for H
\* before the version was committed (only StoreHeader writes bytes that decode).
CommittedHeader(H) == UnmarshalHeader(Get(snaps[H], getKeyForBlockNumber(H))).header

\* The header for height H >= 1 was stored and version H was committed, and the
\* versioned store still holds that version.
StoredAndCommitted(H) ==
    /\ H >= 1
    /\ H \in versions
    /\ CommittedHeader(H).number = H

\* The genesis header was stored and the live store still holds it.
GenesisStored ==
    UnmarshalHeader(Get(live, GenesisHeaderKey)).header.number = 0

\* C3 as claimed. Height fidelity: once the header for H was stored and its version
\* committed, GetHeaderByNumber(H) succeeds and returns that header.
C3_HeightFidelity_Claimed ==
    \A H \in Heights :
        /\ (Returned(H) /\ StoredAndCommitted(H))
           => (ret.err = NilError /\ ret.header = CommittedHeader(H))
        /\ (Returned(H) /\ H = 0 /\ GenesisStored)
           => (/\ ret.err = NilError
               /\ ret.header = UnmarshalHeader(Get(live, GenesisHeaderKey)).header)

\* C3 as amended. Height fidelity: once the header for H was stored and its version
\* committed, GetHeaderByNumber(H) succeeds and returns that header, with number
\* H, however many later heights were stored and committed since, provided that
\* for H >= 1 the query context function is installed and opens version H (the
\* version is not pruned), and that for H = 0 the live store still holds the
\* genesis header.
C3_HeightFidelity ==
    \A H \in Heights :
        /\ (Returned(H) /\ StoredAndCommitted(H) /\ getQueryContext = "adapter")
           => (/\ ret.err = NilError
               /\ ret.header = CommittedHeader(H)
               /\ ret.header.number = H
               /\ ret.reads = <<ViewRead(H, HeaderKey)>>)
        /\ (Returned(H) /\ H = 0 /\ GenesisStored)
           => (/\ ret.err = NilError
               /\ ret.header = UnmarshalHeader(Get(live, GenesisHeaderKey)).header
               /\ ret.header.number = 0
               /\ ret.reads = <<LiveRead(GenesisHeaderKey)>>)

\* The header of height 1 is returned after height 2 was stored and committed.
C3_Witness ==
    /\ Returned(1)
    /\ ret.header.number = 1
    /\ lastCommit = 2
    /\ StoredAndCommitted(2)

\* C4. Genesis isolation: GetHeaderByNumber(0) never calls the query context
\* function and reads GENESIS_SLOT of the live store and nothing else; what it
\* returns is the same whether the function is unset, failing or working and
\* whatever the current height is: a step that changes the function, the height or
\* the committed versions and leaves the live store alone does not change it.
C4_GenesisIsolation ==
    /\ [](Returned(0) => (/\ ret.calls = <<>>
                          /\ ret.reads = <<LiveRead(GenesisHeaderKey)>>))
    /\ [][(/\ live' = live
           /\ \/ getQueryContext' # getQueryContext
              \/ height' # height
              \/ versions' # versions)
          => Result(0)' = Result(0)]_vars

\* Height 0 is answered with the query context function failing, at a later height.
C4_Witness ==
    /\ Returned(0)
    /\ ret.header.number = 0
    /\ getQueryContext = "failing"
    /\ height >= 1

\* C5. Historical reads are isolated from concurrent writes: while a call
\* GetHeaderByNumber(H) is in progress for a height H >= 1 that was committed and
\* below the current height when it began, no step of another caller (a StoreHeader
\* call, a commit, an advance of the height) changes what a call for H returns when
\* it runs alone, and that is what the call in progress returns.
C5_HistoricalReadIsolation ==
    [][(rd.pc # "idle" /\ rd.historical)
       => \A H \in {rd.number} :
              /\ rd'.pc = rd.pc => Result(H)' = Result(H)
              /\ rd'.pc = "idle"
                   => [header |-> ret'.header, err |-> ret'.err] = Result(H)]_vars

\* A call for a committed height has read its header from the view and is about to
\* return it, after StoreHeader put the header of a later height in the live store.
C5_Witness ==
    /\ rd.pc = "return"
    /\ rd.historical
    /\ rd.overlapped
    /\ rd.r.reads = <<ViewRead(rd.number, HeaderKey)>>
    /\ UnmarshalHeader(rd.r.bz).header.number = rd.number
    /\ UnmarshalHeader(Get(live, HeaderKey)).header.number > rd.number

\* C6 as claimed, in the case the claim names: the current height advancing between
\* two calls of GetHeaderByNumber(H) changes the result for no H, above the current
\* height or not.
C6_IdempotentReads_Claimed ==
    [][height' # height => \A n \in Requests : Result(n)' = Result(n)]_vars

\* C6 as amended. Idempotent reads: for every H at most the current height at the
\* first call, two calls of GetHeaderByNumber(H) return identical results when no
\* StoreHeader call, no other write to the store, no commit or pruning of a version
\* and no SetQueryContextFn call comes between them, also when the current height
\* advances between the two calls.
C6_IdempotentReads ==
    [][(/\ height' # height
        /\ live' = live
        /\ snaps' = snaps
        /\ versions' = versions
        /\ getQueryContext' = getQueryContext)
       => \A n \in Requests : n <= height => Result(n)' = Result(n)]_vars

\* A committed height is read while a later block is in progress.
C6_Witness ==
    \E n \in Requests :
        /\ Returned(n)
        /\ n >= 1
        /\ ret.header.number = n
        /\ n < height
        /\ lastCommit < height

\* C7. Adapter failure is surfaced: when the query context function fails for the
\* height after the clamp, GetHeaderByNumber returns the error wrapped as query
\* context error and no header, has read no store and has called the function once.
C7_AdapterFailure ==
    \A n \in Requests :
        (/\ Returned(n)
         /\ n >= 1
         /\ getQueryContext # "nil"
         /\ CallQueryContext(Min(n, height), FALSE).err # NilError)
        => (/\ ret.header = NilHeader
            /\ ret.err = <<MsgQueryContext>> \o CallQueryContext(Min(n, height), FALSE).err
            /\ ret.reads = <<>>
            /\ ret.calls = <<[height |-> Min(n, height), prove |-> FALSE]>>)

\* A pruned height is asked for.
C7_Witness ==
    \E n \in Requests :
        /\ Returned(n)
        /\ n < lastCommit
        /\ n \notin versions
        /\ ret.err = <<MsgQueryContext, "version does not exist">>

IsDecodeError(err) == Len(err) >= 1 /\ err[1] = MsgUnmarshal

\* C8. Not-found is distinct from corrupt: GetHeaderByNumber fails with the
\* not-found error exactly when the slot it read (GENESIS_SLOT of the live store
\* for height 0, CURRENT_SLOT of the view otherwise) holds no value, and with a
\* decode error exactly when the slot holds bytes that do not decode; neither
\* returns a header.
C8_NotFoundVersusCorrupt ==
    \A n \in Requests :
        Returned(n) =>
            LET slotRead == Len(ret.reads) = 1
                bz == IF slotRead
                      THEN Get(StoreOf(ret.reads[1]), ret.reads[1].key)
                      ELSE NilBytes
            IN  /\ slotRead =>
                      ret.reads[1] = IF n = 0
                                     THEN LiveRead(GenesisHeaderKey)
                                     ELSE ViewRead(Min(n, height), HeaderKey)
                /\ ret.err = ErrNotFound <=> (slotRead /\ bz = NilBytes)
                /\ IsDecodeError(ret.err) <=>
                      (slotRead /\ bz # NilBytes /\ UnmarshalHeader(bz).err # NilError)
                /\ (ret.err = ErrNotFound \/ IsDecodeError(ret.err))
                      => ret.header = NilHeader

\* Damaged bytes committed at height 1 are read through the view.
C8_Witness ==
    /\ Returned(1)
    /\ IsDecodeError(ret.err)
    /\ ret.reads = <<ViewRead(1, HeaderKey)>>
    /\ snaps[1][HeaderKey] = Malformed

\* C9. StoreHeader writes exactly one slot: a successful StoreHeader(h) sets the
\* slot of h.number in the live store (GENESIS_SLOT iff h.number = 0, CURRENT_SLOT
\* otherwise) to the encoding of h and leaves the other slot and every committed
\* version as they were.
C9_StoreWritesOneSlot ==
    [][(ret'.op = "StoreHeader" /\ ret'.err = NilError)
       => LET slot == IF ret'.stored.number = 0 THEN GenesisHeaderKey ELSE HeaderKey
          IN  /\ live'[slot] = <<ret'.stored.number, ret'.stored.payload>>
              /\ \A k \in Keys \ {slot} : live'[k] = live[k]
              /\ snaps' = snaps
              /\ versions' = versions]_vars

\* A header of height >= 1 is stored over a live store that holds the genesis header.
C9_Witness ==
    /\ ret.op = "StoreHeader"
    /\ ret.err = NilError
    /\ ret.number >= 1
    /\ live[HeaderKey] = <<ret.stored.number, ret.stored.payload>>
    /\ GenesisStored
    /\ versions # {}

\* C10. No write on encode failure: when the header does not encode, StoreHeader
\* returns the encode error and the live store is as it was.
C10_NoWriteOnEncodeFailure ==
    [][(ret'.op = "StoreHeader" /\ MarshalHeader(ret'.stored).err # NilError)
       => (/\ ret'.err = <<MsgMarshal>> \o MarshalHeader(ret'.stored).err
           /\ live' = live)]_vars

\* A header that does not encode is handed over while both slots hold a value.
C10_Witness ==
    /\ ret.op = "StoreHeader"
    /\ ret.err # NilError
    /\ live[HeaderKey] # NilBytes
    /\ live[GenesisHeaderKey] # NilBytes

\* C11. The read path has no side effects: a call of GetHeaderByNumber, successful
\* or failing, leaves both slots of the live store, every committed version, the
\* versions that can be opened, the current height and the installed query context
\* function as they were.
C11_ReadHasNoSideEffects ==
    [][ret'.op = "GetHeaderByNumber"
       => (/\ live' = live
           /\ snaps' = snaps
           /\ versions' = versions
           /\ lastCommit' = lastCommit
           /\ height' = height
           /\ getQueryContext' = getQueryContext)]_vars

\* A call answered from the view of an earlier height while the live store holds the
\* header of a later one.
C11_Witness ==
    \E n \in Requests :
        /\ Returned(n)
        /\ ret.err = NilError
        /\ ret.reads = <<ViewRead(n, HeaderKey)>>
        /\ live[HeaderKey] # snaps[n][HeaderKey]

\* The number of the header a store holds under a key, -1 when it holds none.
NumberHeld(store, key) == UnmarshalHeader(Get(store, key)).header.number

\* The versions that can be opened and hold a header with number H in CURRENT_SLOT.
VersionsHolding(H) == {v \in versions : NumberHeld(snaps[v], HeaderKey) = H}

C13_AdapterCallShape ==
    \A n \in Requests :
        (Returned(n) /\ n >= 1 /\ getQueryContext # "nil")
        => /\ ret.calls = <<[height |-> Min(n, height), prove |-> FALSE]>>
           /\ ret.calls[1].height # n => (n > height /\ ret.calls[1].height = height)
           /\ n > height => ret.calls[1].height = height
           /\ IF CallQueryContext(Min(n, height), FALSE).err = NilError
              THEN ret.reads = <<ViewRead(Min(n, height), HeaderKey)>>
              ELSE ret.reads = <<>>
           /\ \A i \in 1..Len(ret.reads) :
                  ret.reads[i].store = "view" /\ ret.reads[i].key # GenesisHeaderKey

\* The largest height there is is asked for and the view of the current height read,
\* while the genesis header is in the live store.
C13_Witness ==
    /\ Returned(TwoToBits - 1)
    /\ height >= 1
    /\ ret.calls = <<[height |-> height, prove |-> FALSE]>>
    /\ ret.reads = <<ViewRead(height, HeaderKey)>>
    /\ GenesisStored

\* C14. Unset adapter: while the query context function is nil, a call
\* GetHeaderByNumber(n), n >= 1, returns the error of the nil check and no header,
\* has called nothing and read no store, whatever the current height and the
\* versions are; GetHeaderByNumber(0) reads GENESIS_SLOT of the live store as ever.
\* Once a function is installed a call with n >= 1 calls it once and returns what
\* comes of it: the wrapped error of a failing function, the read of the view of a
\* working one.
C14_UnsetAdapter ==
    \A n \in Requests :
        Returned(n) =>
            /\ (n >= 1 /\ getQueryContext = "nil")
               => (/\ ret.header = NilHeader
                   /\ ret.err = ErrNilQueryContext
                   /\ ret.err # NilError
                   /\ ret.calls = <<>>
                   /\ ret.reads = <<>>)
            /\ n = 0
               => (/\ ret.calls = <<>>
                   /\ ret.reads = <<LiveRead(GenesisHeaderKey)>>
                   /\ ret.err = NilError <=> NumberHeld(live, GenesisHeaderKey) = 0
                   /\ ret.err = NilError
                      => ret.header = UnmarshalHeader(Get(live, GenesisHeaderKey)).header)
            /\ (n >= 1 /\ getQueryContext # "nil")
               => (/\ Len(ret.calls) = 1
                   /\ ret.err # ErrNilQueryContext
                   /\ getQueryContext = "failing"
                      => ret.err = <<MsgQueryContext, "query context unavailable">>
                   /\ (getQueryContext = "adapter" /\ Min(n, height) \in versions)
                      => ret.reads = <<ViewRead(Min(n, height), HeaderKey)>>)

\* The header of height 1 is stored and committed, and asked for with no function
\* installed.
C14_Witness ==
    /\ Returned(1)
    /\ getQueryContext = "nil"
    /\ StoredAndCommitted(1)
    /\ ret.err = ErrNilQueryContext
    /\ GenesisStored

\* C15. The returned header matches the request: a header that GetHeaderByNumber(n)
\* returns has the number n as asked for, before any clamp, and comes with no error.
C15_ReturnedHeaderMatchesRequest ==
    \A n \in Requests :
        (Returned(n) /\ ret.header # NilHeader)
        => (ret.header.number = n /\ ret.err = NilError)

\* The header of the current height is returned, with the header of an earlier
\* height in an earlier version.
C15_Witness ==
    /\ Returned(height)
    /\ ret.header # NilHeader
    /\ height >= 2
    /\ StoredAndCommitted(height - 1)
    /\ ret.reads = <<ViewRead(height, HeaderKey)>>

\* C16. Height conversion is safe: for every uint64 n >= 1, those above the largest
\* int64 included, and every current height C from 0 to the largest int64, the int64
\* height that GetHeaderByNumber(n) passes to the query context function is
\* min(n, C): not negative and at most C.
C16_HeightConversionSafe ==
    \A n \in AllUint64 :
        (Returned(n) /\ n >= 1 /\ getQueryContext # "nil")
        => (/\ Len(ret.calls) = 1
            /\ ret.calls[1].height >= 0
            /\ ret.calls[1].height <= height
            /\ ret.calls[1].height = Min(n, height))

\* A height above the largest int64 is asked for at a current height that is not the
\* largest int64 either.
C16_Witness ==
    \E n \in AllUint64 :
        /\ Returned(n)
        /\ n > MaxInt64
        /\ height >= 1
        /\ height < MaxInt64
        /\ getQueryContext # "nil"
        /\ ret.calls = <<[height |-> height, prove |-> FALSE]>>

\* The contexts of Ctx whose cancel function was not called.
NotCancelled == {c \in 1..Len(ctxs) : ~ctxs[c].cancelCalled}

\* C17. Contexts of the RPC test environment: after any sequence of Ctx calls the
\* cancel function of every context that Ctx created was called, except for the
\* last one made, so at most one is not cancelled, and it is the one the TestEnv
\* holds; a context whose cancel function was called is done; once runHTTP or runWS
\* has returned after the test function, the last context is cancelled too.
C17_TestEnvContexts ==
    /\ Cardinality(NotCancelled) <= 1
    /\ \A c \in NotCancelled :
           /\ c = Len(ctxs)
           /\ run.pc = "fn"
           /\ env.lastCtx = c
           /\ env.lastCancel = c
    /\ \A c \in 1..Len(ctxs) : ctxs[c].cancelCalled => ctxs[c].err # "nil"
    /\ run.pc = "returned" => NotCancelled = {}

\* A second run has returned after its test function called Ctx more than once, and
\* one context of it had timed out before it was cancelled.
C17_Witness ==
    /\ run.pc = "returned"
    /\ run.transport = "ws"
    /\ Len(ctxs) = MaxCtx
    /\ env.lastCtx = MaxCtx
    /\ ctxs[MaxCtx].err = "context canceled"
    /\ ctxs[MaxCtx - 1].err = "context deadline exceeded"
    /\ ctxs[1].err = "context canceled"

====
